---------------------------- MODULE Spec2Model ----------------------------
(***************************************************************************)
(* A model of TeleFlow's TelegramBot (src/TeleFlow/__init__.py): the       *)
(* outbound call (__call__ with validate_url), the handler registry, and   *)
(* the long-polling loop (get_updates, process_updates, start_polling,     *)
(* stop_polling).                                                          *)
(*                                                                         *)
(* Spec     : one bot whose polling task runs start_polling while the      *)
(*            environment registers handlers, requests a stop or cancels   *)
(*            the task; getUpdates goes through the same __call__ steps.   *)
(* CallSpec : one outbound call bot(method, data, files) on inputs drawn   *)
(*            from bounded sets.                                           *)
(*                                                                         *)
(* Python strings that the code inspects with startswith are pairs         *)
(* <<prefix, rest>>; dict and list arguments are sequences in insertion    *)
(* order.                                                                  *)
(***************************************************************************)
EXTENDS Integers, Sequences, FiniteSets, TLC

(* ------------------------------ bounds -------------------------------- *)

\* Largest update_id the server hands out.
MaxId == 2
\* Largest number of updates in one getUpdates result.
MaxBatch == 2
\* Largest number of entries of the data dict of an outbound call.
MaxParams == 2
\* Largest number of entries of the files dict of an outbound call.
MaxFiles == 2

(* ------------------------------ values -------------------------------- *)

\* Python's None, as a value of the same shape as the other tagged values.
None == [t |-> "none"]

Str(pre, rest) == [t |-> "str", pre |-> pre, rest |-> rest]

\* value.startswith('http://') or value.startswith('https://')
IsHttpUrl(v) == v.t = "str" /\ v.pre \in {"http://", "https://"}

\* The values a caller may put in the data dict: two remote URLs, a plain
\* string, a number, a structured value and None.
ParamValues ==
    { Str("https://", "example.com/x.png"), Str("http://", "example.com/x.png"),
      Str("", "hello"), [t |-> "int", n |-> 7], [t |-> "list", items |-> <<"a">>],
      None }

\* The local file system: the paths that open(path, 'rb') finds.
ExistingPaths == { Str("", "/data/a.png") }
LocalPaths == ExistingPaths \cup { Str("", "/data/missing.png") }

\* The values a caller may put in the files dict: inline bytes with a file
\* name, a remote URL, a local path, or any other object (a file-like).
FileValues ==
    { [t |-> "tuple", bytes |-> "bytes", filename |-> "x.bin"],
      Str("https://", "example.com/f.pdf"),
      [t |-> "filelike"] } \cup LocalPaths

RECURSIVE SeqsUpTo(_, _)
SeqsUpTo(S, n) ==
    IF n = 0 THEN { <<>> }
    ELSE LET shorter == SeqsUpTo(S, n - 1)
         IN  shorter \cup { Append(s, x) : s \in { q \in shorter : Len(q) = n - 1 }, x \in S }

\* The network's answers to a HEAD probe: a response with a status and a
\* Content-Type header (<<prefix, rest>>, the empty pair when the header is
\* absent), or a transport failure.
ProbeStatuses == { 200, 404 }
ContentTypes ==
    { <<"image/", "png">>, <<"IMAGE/", "PNG">>, <<"application/pdf", "">>,
      <<"application/", "json">>, <<"text/", "html">>, <<"", "">> }
ProbeOutcomes ==
    { [fail |-> FALSE, status |-> s, ctype |-> c] : s \in ProbeStatuses, c \in ContentTypes }
    \cup { [fail |-> TRUE, status |-> 0, ctype |-> <<"", "">>] }
\* No probe yet.
NoProbe == [fail |-> FALSE, status |-> 0, ctype |-> <<"", "">>]

\* str.lower() on the content-type prefixes above.
Lower(s) ==
    CASE s = "IMAGE/" -> "image/"
      [] OTHER -> s

AcceptedPrefixes ==
    { "audio/", "application/pdf", "image/", "video/", "application/octet-stream" }

\* validate_url without its test of the status.
MutValidateUrlNoStatus(o) ==
    IF o.fail THEN FALSE
    ELSE Lower(o.ctype[1]) \in AcceptedPrefixes
\* Lines 19-29, validate_url: the boolean it returns for the answer to its probe;
\* the except clause turns every failure of the probe into False.
validate_url(o) ==
    IF o.fail THEN FALSE
    ELSE IF o.status # 200 THEN FALSE
    ELSE Lower(o.ctype[1]) \in AcceptedPrefixes


(* ------------------------------- state -------------------------------- *)

VARIABLES
    \* TelegramBot's fields
    handlers,     \* self.handlers: a function from the registered keys to callbacks
    offset,       \* self.offset
    session,      \* self.session: "none" or "open"
    running,      \* self.running
    \* the frame of the __call__ in progress
    cpc,          \* where the call stands
    method,       \* its method argument
    data,         \* its data argument: a sequence of <<key, value>> (<<>>: None or {})
    files,        \* its files argument: a sequence of <<key, value>> (<<>>: None or {})
    ci,           \* the index of the for loop it is in
    form_data,    \* the fields added to aiohttp.FormData so far
    open_files,   \* its local list open_files: the keys whose file it opened
    result,       \* its local result: the envelope response.json() gave
    ret,          \* what the call returned or raised
    \* the environment
    requests,     \* the requests the transport has recorded for this call
    lastProbe,    \* the answer to the last HEAD probe
    unclosed,     \* the files that were opened and have not been closed
    \* the polling task
    pc,           \* where start_polling stands
    remaining,    \* how many updates of the batch the for loop has yet to take
    update,       \* the update the for loop is at
    invoked,      \* the handler invocations made for that update
    outcome,      \* how the last handler invocation ended
    cancelled,    \* task.cancel() was called on the polling task
    timer,        \* the time asyncio.sleep has yet to wait
    \* history
    maxSeen,      \* the largest update_id processed so far (-1: none yet)
    replaced,     \* the callbacks re-registration threw out of the registry
    stopCalled,   \* stop_polling() has been called
    asked,        \* the offset the last getUpdates carried (-1: none sent yet)
    batchOrder    \* how the update_ids of the batch taken so far were ordered

botVars == <<handlers, offset, session, running>>
callVars == <<cpc, method, data, files, ci, form_data, open_files, result, ret, requests,
              lastProbe, unclosed>>
pollVars == <<pc, remaining, update, invoked, outcome, cancelled, timer, maxSeen, replaced,
              stopCalled, asked, batchOrder>>
vars == <<handlers, offset, session, running,
          cpc, method, data, files, ci, form_data, open_files, result, ret, requests,
          lastProbe, unclosed,
          pc, remaining, update, invoked, outcome, cancelled, timer, maxSeen, replaced,
          stopCalled, asked, batchOrder>>

(* ------------------------------ __call__ ------------------------------ *)

\* self.api_url followed by "/" and the method.
ApiUrl(m) == Str("https://api.telegram.org/bot<token>/", m)

NoRet == [kind |-> "none", msg |-> <<>>, value |-> 0]
Returned(v) == [kind |-> "ok", msg |-> <<>>, value |-> v]
\* raise TelegramAPIError(f"{prefix}{detail}")
TelegramAPIError(prefix, detail) ==
    [kind |-> "TelegramAPIError", msg |-> <<prefix, detail>>, value |-> 0]
\* Any other exception (aiohttp.ClientError, a JSON decoding error, TypeError, ...).
OtherException(what) == [kind |-> "Exception", msg |-> <<what>>, value |-> 0]
CancelledError == [kind |-> "CancelledError", msg |-> <<>>, value |-> 0]

\* The string an f-string makes of a str value.
Text(v) == <<v.pre, v.rest>>

HeadRequest(url) == [verb |-> "HEAD", target |-> url, enc |-> "none", body |-> <<>>]
PostRequest(m, enc, body) == [verb |-> "POST", target |-> ApiUrl(m), enc |-> enc, body |-> body]

\* form_data.add_field(key, value, filename=filename)
Field(key, value, filename) == [name |-> key, value |-> value, filename |-> filename]
NoFilename == ""
\* json.dumps(value) and str(value), kept symbolic.
JsonDumps(v) == [t |-> "json_text", of |-> v]
StrOf(v) == [t |-> "str_text", of |-> v]

\* Lines 47-53: the fields the data dict gives the form.
RECURSIVE DataFields(_)
DataFields(d) ==
    IF d = <<>> THEN <<>>
    ELSE LET key == d[1][1]
             value == d[1][2]
             rest == DataFields(Tail(d))
         IN  IF value.t = "none" THEN rest
             ELSE IF value.t = "list" THEN <<Field(key, JsonDumps(value), NoFilename)>> \o rest
             ELSE <<Field(key, StrOf(value), NoFilename)>> \o rest

\* file_info.split('/')[-1].split('\\')[-1] on the local paths of the model.
Basename(path) ==
    CASE path.rest = "/data/a.png" -> "a.png"
      [] path.rest = "/data/missing.png" -> "missing.png"
      [] OTHER -> path.rest

\* Lines 32-35: the call is entered; the session is created when there is none.
CallEnter ==
    /\ cpc = "enter"
    /\ session' = "open"
    /\ cpc' = IF data # <<>> THEN "validate" ELSE "build"
    /\ ci' = 1
    /\ UNCHANGED <<handlers, offset, running, method, data, files, form_data, open_files,
                   result, ret, requests, lastProbe, unclosed>>
    /\ UNCHANGED pollVars

\* The call raises: it is over, with the exception as its outcome.
Raise(e) ==
    /\ cpc' = "done"
    /\ ret' = e

\* Lines 38-42: one turn of the loop over data.items().
ValidateData ==
    /\ cpc = "validate"
    /\ LET value == data[ci][2]
           next == IF ci = Len(data) THEN "build" ELSE "validate"
       IN  IF IsHttpUrl(value)
           THEN \E o \in ProbeOutcomes :
                  /\ requests' = Append(requests, HeadRequest(value))
                  /\ lastProbe' = o
                  /\ IF validate_url(o)
                     THEN /\ cpc' = next
                          /\ ci' = ci + 1
                          /\ ret' = ret
                     ELSE /\ Raise(TelegramAPIError("Invalid or inaccessible URL: ", Text(value)))
                          /\ ci' = ci
           ELSE /\ cpc' = next
                /\ ci' = ci + 1
                /\ UNCHANGED <<ret, requests, lastProbe>>
    /\ UNCHANGED <<handlers, offset, session, running, method, data, files, form_data,
                   open_files, result, unclosed>>
    /\ UNCHANGED pollVars

\* Lines 45-55 and 80: with files, the form is started with the data fields.
BuildForm ==
    /\ cpc = "build"
    /\ IF files # <<>>
       THEN /\ form_data' = DataFields(data)
            /\ cpc' = "attach"
       ELSE /\ form_data' = form_data
            /\ cpc' = "post"
    /\ ci' = 1
    /\ open_files' = <<>>
    /\ UNCHANGED <<handlers, offset, session, running, method, data, files, result, ret,
                   requests, lastProbe, unclosed>>
    /\ UNCHANGED pollVars

\* Lines 56-73: one turn of the loop over files.items().
AddFile ==
    /\ cpc = "attach"
    /\ LET key == files[ci][1]
           file_info == files[ci][2]
           next == IF ci = Len(files) THEN "post" ELSE "attach"
           added(f) == /\ form_data' = Append(form_data, f)
                       /\ cpc' = next
                       /\ ci' = ci + 1
                       /\ ret' = ret
       IN  CASE file_info.t = "tuple" ->
                  /\ added(Field(key, file_info.bytes, file_info.filename))
                  /\ UNCHANGED <<open_files, requests, lastProbe, unclosed>>
             [] file_info.t = "str" /\ IsHttpUrl(file_info) ->
                  \E o \in ProbeOutcomes :
                    /\ requests' = Append(requests, HeadRequest(file_info))
                    /\ lastProbe' = o
                    /\ IF validate_url(o)
                       THEN added(Field(key, file_info, NoFilename))
                       ELSE /\ Raise(TelegramAPIError("Invalid file URL: ", Text(file_info)))
                            /\ UNCHANGED <<form_data, ci>>
                    /\ UNCHANGED <<open_files, unclosed>>
             [] file_info.t = "str" /\ ~IsHttpUrl(file_info) ->
                  IF file_info \in ExistingPaths
                  THEN /\ open_files' = Append(open_files, key)
                       /\ unclosed' = unclosed \cup {key}
                       /\ added(Field(key, [t |-> "file", key |-> key], Basename(file_info)))
                       /\ UNCHANGED <<requests, lastProbe>>
                  ELSE /\ Raise(TelegramAPIError("File not found: ", Text(file_info)))
                       /\ UNCHANGED <<form_data, ci, open_files, requests, lastProbe, unclosed>>
             [] OTHER ->
                  /\ added(Field(key, file_info, NoFilename))
                  /\ UNCHANGED <<open_files, requests, lastProbe, unclosed>>
    /\ UNCHANGED <<handlers, offset, session, running, method, data, files, result>>
    /\ UNCHANGED pollVars

\* Line 82, json=data: the body json.dumps makes of the data dict.  Every key
\* is kept; None becomes null, the other values keep their JSON form.
JsonNull == [t |-> "null"]
JsonOf(v) == IF v.t = "none" THEN JsonNull ELSE v
JsonBody(d) == [i \in 1..Len(d) |-> <<d[i][1], JsonOf(d[i][2])>>]

\* Lines 75 and 81-82: the POST is handed to the transport.
PostSend ==
    /\ cpc = "post"
    /\ requests' = Append(requests,
                     IF files # <<>> THEN PostRequest(method, "multipart", form_data)
                     ELSE PostRequest(method, "json", JsonBody(data)))
    /\ cpc' = "await_post"
    /\ UNCHANGED <<handlers, offset, session, running, method, data, files, ci, form_data,
                   open_files, result, ret, lastProbe, unclosed>>
    /\ UNCHANGED pollVars

\* The envelopes the remote API may answer with.  The result of getUpdates is a
\* list of updates, kept as its length: process_updates draws the updates
\* themselves as its for loop takes them.
NoDescription == "<no description>"
Descriptions == { "Bad Request: chat not found", NoDescription }
Envelopes ==
    { [ok |-> TRUE, result |-> n, description |-> NoDescription] : n \in 0..MaxBatch }
    \cup { [ok |-> FALSE, result |-> 0, description |-> d] : d \in Descriptions }

\* No envelope yet.
NoEnvelope == [ok |-> TRUE, result |-> 0, description |-> "<no envelope>"]

\* result.get('description', 'Unknown error')
ErrorDesc(env) ==
    IF env.description = NoDescription THEN "Unknown error" ELSE env.description

\* Lines 78-79: the files of open_files are closed.
CloseFiles(open, opened) == open \ { opened[i] : i \in 1..Len(opened) }

\* The unwrapping without its test of ok.
MutUnwrapIgnoresOk(env) == Returned(env.result)
\* Lines 85-89: the envelope is unwrapped.
Unwrap(env) ==
    IF ~env.ok
    THEN TelegramAPIError("Telegram API Error: ", <<ErrorDesc(env)>>)
    ELSE Returned(env.result)

\* Lines 75-89: the POST ends.  Either the transport or response.json() raises,
\* and the exception leaves __call__ at once, or the envelope arrives, the files
\* of a multipart request are closed and the envelope is unwrapped.
PostReceive ==
    /\ cpc = "await_post"
    /\ cpc' = "done"
    /\ \/ /\ ret' = OtherException("transport")
          /\ UNCHANGED <<result, unclosed>>
       \/ \E env \in Envelopes :
            /\ result' = env
            /\ unclosed' = IF files # <<>> THEN CloseFiles(unclosed, open_files) ELSE unclosed
            /\ ret' = Unwrap(env)
    /\ UNCHANGED <<handlers, offset, session, running, method, data, files, ci, form_data,
                   open_files, requests, lastProbe>>
    /\ UNCHANGED pollVars

(* ---------------------------- the registry ---------------------------- *)

\* The update types the server sends.
Types == { "message", "callback_query" }
\* The callbacks the program registers.
Callbacks == { "f", "g" }
Wildcard == "*"

\* Line 93: update_type or '*' ("" stands for every falsy argument, None included).
HandlerKey(update_type) == IF update_type = "" THEN Wildcard ELSE update_type

\* A registration that keeps the callback a key already has.
MutSetKeepsFirst(h, key, func) ==
    [k \in DOMAIN h \cup {key} |-> IF k \in DOMAIN h THEN h[k] ELSE func]
\* Line 93: self.handlers[key] = func
SetHandler(h, key, func) ==
    [k \in DOMAIN h \cup {key} |-> IF k = key THEN func ELSE h[k]]

Registered(h) == { h[k] : k \in DOMAIN h }

\* The callback that registering func under key throws out: the one key held,
\* when it is another and no other key holds it.
Thrown(h, key, func) ==
    IF /\ key \in DOMAIN h
       /\ h[key] # func
       /\ h[key] \notin { h[k] : k \in DOMAIN h \ {key} }
    THEN { h[key] }
    ELSE {}

\* Lines 91-95: handler(update_type)(func).
Register(update_type, func) ==
    /\ handlers' = SetHandler(handlers, HandlerKey(update_type), func)
    /\ replaced' = (replaced \ {func}) \cup Thrown(handlers, HandlerKey(update_type), func)
    /\ UNCHANGED <<offset, session, running>>
    /\ UNCHANGED callVars
    /\ UNCHANGED <<pc, remaining, update, invoked, outcome, cancelled, maxSeen, timer>>
    /\ UNCHANGED <<stopCalled, asked, batchOrder>>

(* ----------------------------- the updates ---------------------------- *)

\* getattr(update, 'update_id', None) of an update that has no update_id.
NoId == -1
\* The fields of an update other than update_id, in the order of its __dict__,
\* each a type and its payload: none, one, or two of different types.
FieldLists ==
    { <<>> }
    \cup { << <<t, "p">> >> : t \in Types }
    \cup { << <<x[1], "p">>, <<x[2], "q">> >> : x \in { y \in Types \X Types : y[1] # y[2] } }
Updates == [update_id : {NoId} \cup 0..MaxId, fields : FieldLists]

\* No update yet.
NoUpdate == [update_id |-> NoId, fields |-> <<>>]

Max(a, b) == IF a >= b THEN a ELSE b

\* An offset that goes one past the update after this one.
MutOffsetPastNext(off, update_id) ==
    IF update_id # NoId /\ update_id # 0 THEN Max(off, update_id + 2) ELSE off
\* The offset set to update_id + 1 without the max.
MutOffsetAssign(off, update_id) ==
    IF update_id # NoId /\ update_id # 0 THEN update_id + 1 ELSE off
\* Lines 108-110: the offset after an update with this update_id; 0, like None,
\* fails the test "if update_id".
NewOffset(off, update_id) ==
    IF update_id # NoId /\ update_id # 0 THEN Max(off, update_id + 1) ELSE off

\* Lines 112-116: the first key other than update_id ("" stands for None).
NoType == ""
UpdateType(u) == IF u.fields = <<>> THEN NoType ELSE u.fields[1][1]

\* self.handlers.get(update_type, self.handlers.get('*')); "" stands for None,
\* the handler that is not there.
NoHandler == ""
\* A lookup that prefers the wildcard.
MutLookupWildcardFirst(h, update_type) ==
    IF Wildcard \in DOMAIN h THEN h[Wildcard]
    ELSE IF update_type \in DOMAIN h THEN h[update_type]
    ELSE NoHandler
\* Line 118.
Lookup(h, update_type) ==
    IF update_type \in DOMAIN h THEN h[update_type]
    ELSE IF Wildcard \in DOMAIN h THEN h[Wildcard]
    ELSE NoHandler

\* Line 120: getattr(update, update_type) for an update_type that is a key.
UpdatePart(u, update_type) ==
    LET i == CHOOSE j \in 1..Len(u.fields) : u.fields[j][1] = update_type
    IN  u.fields[i][2]

(* --------------------------- the polling task ------------------------- *)

\* get_updates' default timeout, and the seconds start_polling sleeps after a
\* failed cycle.
DefaultTimeout == 30
Backoff == 5

IntValue(n) == [t |-> "int", n |-> n]

\* Lines 98-102: the params of getUpdates.  The list of keys is kept as the set
\* of its items.
AllowedUpdates(h) ==
    IF Wildcard \notin DOMAIN h THEN [t |-> "list", items |-> DOMAIN h] ELSE None
Params(h, off, timeout) ==
    << <<"offset", IntValue(off)>>, <<"timeout", IntValue(timeout)>>,
       <<"allowed_updates", AllowedUpdates(h)>> >>

\* The polling task is suspended in an await: only then can the rest of the
\* program (other tasks, a handler's own code) run.
Suspended ==
    \/ pc \in { "idle", "handler", "sleep", "stopped" }
    \/ pc = "get_updates" /\ cpc = "await_post"

\* A start_polling() that leaves the running flag as it finds it.
MutStartPollingKeepsFlag ==
    /\ pc = "idle"
    /\ session' = "open"
    /\ running' = running
    /\ pc' = "top"
    /\ UNCHANGED <<handlers, offset>>
    /\ UNCHANGED callVars
    /\ UNCHANGED <<remaining, update, invoked, outcome, cancelled, timer, maxSeen, replaced>>
    /\ UNCHANGED <<stopCalled, asked, batchOrder>>
\* Lines 127-130: start_polling is entered.
StartPolling ==
    /\ pc = "idle"
    /\ session' = "open"
    /\ running' = TRUE
    /\ pc' = "top"
    /\ UNCHANGED <<handlers, offset>>
    /\ UNCHANGED callVars
    /\ UNCHANGED <<remaining, update, invoked, outcome, cancelled, timer, maxSeen, replaced>>
    /\ UNCHANGED <<stopCalled, asked, batchOrder>>

\* Lines 132-134 and 97-103: the while test; when it passes, get_updates calls
\* self("getUpdates", data=params).
LoopTop ==
    /\ pc = "top"
    /\ IF running
       THEN /\ pc' = "get_updates"
            /\ asked' = offset
            /\ cpc' = "enter"
            /\ method' = "getUpdates"
            /\ data' = Params(handlers, offset, DefaultTimeout)
            /\ files' = <<>>
            /\ ci' = 1
            /\ form_data' = <<>>
            /\ open_files' = <<>>
            /\ result' = NoEnvelope
            /\ ret' = NoRet
            /\ requests' = <<>>
            /\ UNCHANGED <<lastProbe, unclosed>>
       ELSE /\ pc' = "finally"
            /\ asked' = asked
            /\ UNCHANGED callVars
    /\ UNCHANGED botVars
    /\ UNCHANGED <<remaining, update, invoked, outcome, cancelled, timer, maxSeen, replaced>>
    /\ UNCHANGED <<stopCalled, batchOrder>>

\* A failure that ends the loop.
MutAfterFailureFatal == "finally"
\* Lines 139-144: an exception other than CancelledError that reaches the loop
\* is printed and the loop sleeps; it does not leave the while loop.
AfterFailure == "sleep"

\* A poll whose batch is dropped when a stop was requested while it was in
\* flight.
MutAfterPollChecksRunning(n) ==
    IF ~running THEN "finally" ELSE IF n > 0 THEN "process" ELSE "top"
\* Lines 135-136: a batch of n updates goes to process_updates, an empty one
\* back to the while test; the running flag is not read here.
AfterPoll(n) == IF n > 0 THEN "process" ELSE "top"

\* Lines 134-144: get_updates is over and the frame of its call is gone.  A
\* non-empty result goes to process_updates, an empty one back to the while
\* test; CancelledError breaks out of the loop; every other exception is
\* printed and followed by the sleep.
GetUpdatesReturn ==
    /\ pc = "get_updates"
    /\ cpc = "done"
    /\ cpc' = "idle"
    /\ CASE ret.kind = "ok" ->
              /\ pc' = AfterPoll(ret.value)
              /\ remaining' = ret.value
              /\ timer' = timer
         [] ret.kind = "CancelledError" ->
              /\ pc' = "finally"
              /\ remaining' = 0
              /\ timer' = timer
         [] OTHER ->
              /\ pc' = AfterFailure
              /\ timer' = Backoff
              /\ remaining' = 0
    /\ method' = ""
    /\ data' = <<>>
    /\ result' = NoEnvelope
    /\ ret' = NoRet
    /\ requests' = <<>>
    /\ UNCHANGED botVars
    /\ batchOrder' = "conforming"
    /\ UNCHANGED <<files, ci, form_data, open_files, lastProbe, unclosed>>
    /\ update' = NoUpdate
    /\ UNCHANGED <<invoked, outcome, cancelled, maxSeen, replaced, stopCalled, asked>>

\* An invocation with its arguments in the other order.
MutInvocationSwapped(func, update_part, update_type) ==
    [callback |-> func, args |-> <<update_type, update_part>>]
\* Line 122, a handler invocation: await handler(update_part, update_type).
Invocation(func, update_part, update_type) ==
    [callback |-> func, args |-> <<update_part, update_type>>]

\* How the update_ids of a batch are ordered once an update with update_id id
\* follows one with update_id prev (NoId: none before it) in a batch that was
\* asked for with this offset: "conforming" while they ascend and none is below
\* the offset asked for, "ascending" while they only ascend, else "unordered".
OrderAfter(order, prev, id, askedOffset) ==
    IF id = NoId \/ (prev # NoId /\ id <= prev) \/ order = "unordered" THEN "unordered"
    ELSE IF order = "ascending" \/ id < askedOffset THEN "ascending"
    ELSE "conforming"

\* The for loop taking its next update while the handler of the one before is
\* still awaited.
MutCanTakeNextWhileAwaiting == pc \in { "process", "handler" } /\ remaining > 0
\* Lines 107 and 122: the for loop takes its next update when the body is not
\* suspended in the await of a handler and the batch is not exhausted.
CanTakeNext == pc = "process" /\ remaining > 0

\* Lines 107-122: the for loop takes the next update u of the batch, up to the
\* await of its handler.  With a handler and no field to name the type,
\* getattr(update, None) raises TypeError outside the try: it leaves
\* process_updates and start_polling prints it and sleeps; remaining then
\* counts the updates of the batch the loop never reached.
Dispatch ==
    /\ CanTakeNext
    /\ \E u \in Updates :
         LET update_type == UpdateType(u)
             handler == Lookup(handlers, update_type)
         IN  /\ update' = u
             /\ offset' = NewOffset(offset, u.update_id)
             /\ maxSeen' = Max(maxSeen, u.update_id)
             /\ batchOrder' = OrderAfter(batchOrder, update.update_id, u.update_id, asked)
             /\ IF handler # NoHandler
                THEN IF update_type = NoType
                     THEN /\ pc' = AfterFailure
                          /\ timer' = Backoff
                          /\ remaining' = remaining - 1
                          /\ invoked' = <<>>
                     ELSE /\ pc' = "handler"
                          /\ invoked' = <<Invocation(handler, UpdatePart(u, update_type),
                                                     update_type)>>
                          /\ UNCHANGED <<remaining, timer>>
                ELSE /\ pc' = "process"
                     /\ remaining' = remaining - 1
                     /\ invoked' = <<>>
                     /\ timer' = timer
    /\ UNCHANGED <<handlers, session, running>>
    /\ UNCHANGED callVars
    /\ UNCHANGED <<outcome, cancelled, replaced, stopCalled, asked>>

\* A handler's exception that leaves process_updates and ends in the sleep.
MutHandlerReturnAborts ==
    /\ pc = "handler"
    /\ \E o \in { "returned", "raised" } :
         /\ outcome' = o
         /\ IF o = "raised"
            THEN /\ pc' = "sleep"
                 /\ timer' = Backoff
                 /\ remaining' = 0
            ELSE /\ pc' = "process"
                 /\ remaining' = remaining - 1
                 /\ timer' = timer
    /\ UNCHANGED botVars
    /\ UNCHANGED callVars
    /\ UNCHANGED <<update, invoked, cancelled, maxSeen, replaced>>
    /\ UNCHANGED <<stopCalled, asked, batchOrder>>

\* Lines 121-124: the handler returns, or raises an Exception that is caught
\* and printed; the for loop goes on.
HandlerReturn ==
    /\ pc = "handler"
    /\ \E o \in { "returned", "raised" } : outcome' = o
    /\ pc' = "process"
    /\ remaining' = remaining - 1
    /\ UNCHANGED botVars
    /\ UNCHANGED callVars
    /\ UNCHANGED <<update, invoked, cancelled, timer, maxSeen, replaced>>
    /\ UNCHANGED <<stopCalled, asked, batchOrder>>

\* A loop that ends once a batch has been processed.
MutProcessReturnEnds ==
    /\ pc = "process"
    /\ remaining = 0
    /\ pc' = "finally"
    /\ update' = NoUpdate
    /\ invoked' = <<>>
    /\ outcome' = "none"
    /\ UNCHANGED botVars
    /\ UNCHANGED callVars
    /\ batchOrder' = "conforming"
    /\ UNCHANGED <<remaining, cancelled, timer, maxSeen, replaced, stopCalled, asked>>
\* Line 107: the for loop is exhausted and process_updates returns; its update
\* and what was recorded about it are gone.
ProcessReturn ==
    /\ pc = "process"
    /\ remaining = 0
    /\ pc' = "top"
    /\ update' = NoUpdate
    /\ invoked' = <<>>
    /\ outcome' = "none"
    /\ UNCHANGED botVars
    /\ UNCHANGED callVars
    /\ batchOrder' = "conforming"
    /\ UNCHANGED <<remaining, cancelled, timer, maxSeen, replaced, stopCalled, asked>>

\* Lines 141 and 144: a second of asyncio.sleep(5) passes.
Tick ==
    /\ pc = "sleep"
    /\ timer > 0
    /\ timer' = timer - 1
    /\ UNCHANGED botVars
    /\ UNCHANGED callVars
    /\ UNCHANGED <<pc, remaining, update, invoked, outcome, cancelled, maxSeen, replaced>>
    /\ UNCHANGED <<stopCalled, asked, batchOrder>>

\* Lines 141 and 144: the sleep is over; back to the while test.
Wake ==
    /\ pc = "sleep"
    /\ timer = 0
    /\ pc' = "top"
    /\ UNCHANGED botVars
    /\ UNCHANGED callVars
    /\ UNCHANGED <<remaining, update, invoked, outcome, cancelled, timer, maxSeen, replaced>>
    /\ UNCHANGED <<stopCalled, asked, batchOrder>>

\* A loop that ends without closing its session.
MutFinallyKeepsSession ==
    /\ pc = "finally"
    /\ session' = session
    /\ pc' = "stopped"
    /\ UNCHANGED <<handlers, offset, running>>
    /\ UNCHANGED callVars
    /\ UNCHANGED <<remaining, update, invoked, outcome, cancelled, timer, maxSeen, replaced>>
    /\ UNCHANGED <<stopCalled, asked, batchOrder>>
\* Lines 145-148: the finally clause closes the session.
Finally ==
    /\ pc = "finally"
    /\ session' = "none"
    /\ pc' = "stopped"
    /\ UNCHANGED <<handlers, offset, running>>
    /\ UNCHANGED callVars
    /\ UNCHANGED <<remaining, update, invoked, outcome, cancelled, timer, maxSeen, replaced>>
    /\ UNCHANGED <<stopCalled, asked, batchOrder>>

\* stop_polling() flipping the flag instead of clearing it.
MutStopPollingToggles ==
    /\ Suspended
    /\ running' = ~running
    /\ stopCalled' = TRUE
    /\ UNCHANGED <<handlers, offset, session>>
    /\ UNCHANGED callVars
    /\ UNCHANGED <<pc, remaining, update, invoked, outcome, cancelled, timer, maxSeen, replaced,
                   asked, batchOrder>>
\* Lines 150-151: stop_polling(), called by the rest of the program.
StopPolling ==
    /\ Suspended
    /\ running' = FALSE
    /\ stopCalled' = TRUE
    /\ UNCHANGED <<handlers, offset, session>>
    /\ UNCHANGED callVars
    /\ UNCHANGED <<pc, remaining, update, invoked, outcome, cancelled, timer, maxSeen, replaced,
                   asked, batchOrder>>

\* The rest of the program registers a handler.
RegisterHandler ==
    /\ Suspended
    /\ \E update_type \in Types \cup {""}, func \in Callbacks : Register(update_type, func)

\* The polling task is cancelled: CancelledError is raised in the await it is
\* suspended in.  In the POST it leaves __call__ and get_updates (lines 137-138
\* break); in a handler it passes the except Exception of line 123 and breaks
\* the loop the same way; in the sleep it leaves the while loop through the
\* except clause it is raised in.  All three end in the finally clause.
Cancel ==
    /\ ~cancelled
    /\ cancelled' = TRUE
    /\ \/ /\ pc = "get_updates"
          /\ cpc = "await_post"
          /\ cpc' = "done"
          /\ ret' = CancelledError
          /\ UNCHANGED <<pc, outcome>>
       \/ /\ pc = "handler"
          /\ pc' = "finally"
          /\ outcome' = "cancelled"
          /\ UNCHANGED <<cpc, ret>>
       \/ /\ pc = "sleep"
          /\ pc' = "finally"
          /\ UNCHANGED <<cpc, ret, outcome>>
    /\ UNCHANGED botVars
    /\ UNCHANGED <<method, data, files, ci, form_data, open_files, result, requests,
                   lastProbe, unclosed>>
    /\ UNCHANGED <<remaining, update, invoked, timer, maxSeen, replaced>>
    /\ UNCHANGED <<stopCalled, asked, batchOrder>>

(* --------------------------- specifications --------------------------- *)

\* Lines 11-17: the bot after __init__.
BotInit ==
    /\ handlers = [k \in {} |-> NoHandler]
    /\ offset = 0
    /\ session = "none"
    /\ running = FALSE

PollInit ==
    /\ pc = "idle"
    /\ remaining = 0
    /\ update = NoUpdate
    /\ invoked = <<>>
    /\ outcome = "none"
    /\ cancelled = FALSE
    /\ timer = 0
    /\ maxSeen = NoId
    /\ replaced = {}
    /\ stopCalled = FALSE
    /\ asked = NoId
    /\ batchOrder = "conforming"

\* No outbound call has been made: the call frame is empty.
NoCall ==
    /\ cpc = "idle"
    /\ method = ""
    /\ data = <<>>
    /\ files = <<>>
    /\ ci = 1
    /\ form_data = <<>>
    /\ open_files = <<>>
    /\ result = NoEnvelope
    /\ ret = NoRet
    /\ requests = <<>>
    /\ lastProbe = NoProbe
    /\ unclosed = {}

Init ==
    /\ BotInit
    /\ PollInit
    /\ NoCall

Next ==
    \/ RegisterHandler
    \/ StartPolling
    \/ LoopTop
    \/ CallEnter
    \/ ValidateData
    \/ BuildForm
    \/ PostSend
    \/ PostReceive
    \/ GetUpdatesReturn
    \/ Dispatch
    \/ HandlerReturn
    \/ ProcessReturn
    \/ Tick
    \/ Wake
    \/ Finally
    \/ StopPolling
    \/ Cancel

Spec == Init /\ [][Next]_vars

\* The arguments of an outbound call: data and files with positional keys.
Keyed(values) == [i \in 1..Len(values) |-> <<ToString(i), values[i]>>]
CallData == { Keyed(v) : v \in SeqsUpTo(ParamValues, MaxParams) }
CallFiles == { Keyed(v) : v \in SeqsUpTo(FileValues, MaxFiles) }

\* A bot after __init__ on which bot("sendDocument", data, files) is called.
CallInit ==
    /\ BotInit
    /\ PollInit
    /\ cpc = "enter"
    /\ method = "sendDocument"
    /\ data \in CallData
    /\ files \in CallFiles
    /\ ci = 1
    /\ form_data = <<>>
    /\ open_files = <<>>
    /\ result = NoEnvelope
    /\ ret = NoRet
    /\ requests = <<>>
    /\ lastProbe = NoProbe
    /\ unclosed = {}

CallNext ==
    \/ CallEnter
    \/ ValidateData
    \/ BuildForm
    \/ AddFile
    \/ PostSend
    \/ PostReceive

CallSpec == CallInit /\ [][CallNext]_vars

(* ------------------------------- claims ------------------------------- *)

\* C1: once an update with an integer update_id >= 0 has been processed, the
\* offset equals the largest update_id processed so far plus one.
C1_OffsetIsMaxPlusOne == maxSeen >= 0 => offset = maxSeen + 1

\* C2: the offset never decreases in any step, and a step changes it only in
\* process_updates, as the for loop takes an update that getUpdates returned,
\* to that update's update_id + 1.
C2_OffsetMonotonic ==
    [][ /\ offset' >= offset
        /\ offset' # offset =>
             /\ pc = "process"
             /\ remaining > 0
             /\ update' \in Updates
             /\ update'.update_id # NoId
             /\ offset' = update'.update_id + 1 ]_vars

\* C2's case: an update with an update_id below the offset has been processed
\* and the offset has stayed above it.
C2_Witness ==
    /\ pc = "handler"
    /\ update.update_id > 0
    /\ update.update_id + 1 < offset

\* C3: when the for loop takes an update whose single field other than
\* update_id is T and a handler is registered for T, that handler and no other
\* is invoked for it, once, with (the value of T, T).
C3_RegisteredHandlerInvokedOnce ==
    [][ /\ ( /\ pc = "process"
             /\ remaining > 0
             /\ Len(update'.fields) = 1
             /\ update'.fields[1][1] \in DOMAIN handlers )
           => /\ pc' = "handler"
              /\ invoked' = << [ callback |-> handlers[update'.fields[1][1]],
                                 args |-> <<update'.fields[1][2], update'.fields[1][1]>> ] >>
        /\ pc = "handler" => /\ invoked' = invoked
                             /\ update' = update ]_vars

\* C3's case: the handler of the update's type has been invoked while another
\* callback is registered as the wildcard.
C3_Witness ==
    /\ pc = "handler"
    /\ Len(update.fields) = 1
    /\ DOMAIN handlers = { "message", Wildcard }
    /\ handlers["message"] = "g"
    /\ handlers[Wildcard] = "f"
    /\ invoked = << [callback |-> "g", args |-> <<"p", "message">>] >>

\* C4: the registry holds one callback per key, and a callback that a second
\* registration under its key has thrown out of the registry is not invoked by
\* any later dispatch.
C4_ReplacedNeverInvoked ==
    /\ [](handlers \in [DOMAIN handlers -> Callbacks])
    /\ [][ /\ (invoked' # invoked /\ invoked' # <<>>) =>
                \A i \in 1..Len(invoked') : invoked'[i].callback \notin replaced
           /\ \A k \in DOMAIN handlers :
                (k \in DOMAIN handlers' /\ handlers'[k] # handlers[k]) =>
                   \/ handlers[k] \in replaced'
                   \/ \E j \in DOMAIN handlers' : handlers'[j] = handlers[k] ]_vars

\* C4's case: a callback has been thrown out by a second registration and a
\* dispatch has since invoked the callback that took its place.
C4_Witness ==
    /\ pc = "handler"
    /\ replaced = { "f" }
    /\ invoked # <<>>
    /\ invoked[1].callback = "g"
    /\ invoked[1].args[2] \in DOMAIN handlers

\* C5: for an update of type T the handler registered for T is invoked, also
\* when a wildcard handler is registered; without one for T the wildcard handler
\* is invoked with (payload, T); without either no handler is invoked, nothing
\* is raised and the for loop goes on to the next update.
C5_HandlerResolution ==
    [][ ( /\ pc = "process"
          /\ remaining > 0
          /\ update'.fields # <<>> )
        => LET T == update'.fields[1][1]
               payload == update'.fields[1][2]
           IN  /\ T \in DOMAIN handlers =>
                    /\ pc' = "handler"
                    /\ invoked' = << [callback |-> handlers[T], args |-> <<payload, T>>] >>
               /\ (T \notin DOMAIN handlers /\ Wildcard \in DOMAIN handlers) =>
                    /\ pc' = "handler"
                    /\ invoked' = << [callback |-> handlers[Wildcard],
                                      args |-> <<payload, T>>] >>
               /\ (T \notin DOMAIN handlers /\ Wildcard \notin DOMAIN handlers) =>
                    /\ pc' = "process"
                    /\ remaining' = remaining - 1
                    /\ invoked' = <<>> ]_vars

\* C5's case: an update whose type has no handler has gone to the wildcard
\* handler.
C5_Witness ==
    /\ pc = "handler"
    /\ update.fields # <<>>
    /\ UpdateType(update) \notin DOMAIN handlers
    /\ Wildcard \in DOMAIN handlers
    /\ invoked = << [callback |-> handlers[Wildcard],
                     args |-> <<update.fields[1][2], UpdateType(update)>>] >>

\* C6: when a handler raises, the for loop goes on as after a normal return:
\* no sleep is started, the later updates of the batch are taken (the offset is
\* moved past each and its handler is invoked), and at the end of the batch the
\* loop goes back to the while test.
C6_HandlerFaultIsolated ==
    [][ /\ (pc = "handler" /\ pc' # "handler" /\ outcome' = "raised") =>
             /\ pc' = "process"
             /\ remaining' = remaining - 1
             /\ timer' = timer
             /\ UNCHANGED <<handlers, offset, session, running, cpc>>
        /\ (pc = "process" /\ outcome = "raised" /\ remaining > 0) =>
             /\ update' \in Updates
             /\ update'.update_id > 0 => offset' > update'.update_id
             /\ Lookup(handlers, UpdateType(update')) # NoHandler /\ update'.fields # <<>>
                  => pc' = "handler" /\ Len(invoked') = 1
        /\ (pc = "process" /\ outcome = "raised" /\ remaining = 0) => pc' = "top" ]_vars

\* C6's case: after a handler of the batch has raised, the handler of a later
\* update of the same batch has been invoked.
C6_Witness ==
    /\ pc = "handler"
    /\ outcome = "raised"
    /\ invoked # <<>>

\* A probe's answer that validation rejects: a transport failure, a status
\* other than 200, or a content type outside the accepted prefixes.
Rejected(o) ==
    \/ o.fail
    \/ o.status # 200
    \/ Lower(o.ctype[1]) \notin AcceptedPrefixes

HasPost == \E i \in 1..Len(requests) : requests[i].verb = "POST"
Probed(url) == \E i \in 1..Len(requests) : requests[i] = HeadRequest(url)

\* C7: once the probe of a URL-valued parameter or of a remote-URL attachment
\* is rejected, the call is over with an error and no POST has been issued; and
\* a POST is issued only after every such URL has been probed.
C7_ValidationGatesRequest ==
    /\ (lastProbe # NoProbe /\ Rejected(lastProbe)) =>
          /\ cpc = "done"
          /\ ret.kind = "TelegramAPIError"
          /\ ~HasPost
    /\ HasPost =>
          /\ \A i \in 1..Len(data) : IsHttpUrl(data[i][2]) => Probed(data[i][2])
          /\ \A i \in 1..Len(files) :
               (files[i][2].t = "str" /\ IsHttpUrl(files[i][2])) => Probed(files[i][2])

\* C7's case: after a parameter's URL passed, an attachment's URL with status
\* 200 has been rejected for its content type.
C7_Witness ==
    /\ cpc = "done"
    /\ Len(requests) = 2
    /\ lastProbe.status = 200
    /\ Rejected(lastProbe)
    /\ ret = TelegramAPIError("Invalid file URL: ", <<"https://", "example.com/f.pdf">>)

MissingPaths == LocalPaths \ ExistingPaths

\* C8: a call whose attachments include a local path that does not exist ends
\* with the file-not-found error and the transport has recorded no request.
C8_MissingFileBeforeNetwork ==
    (cpc = "done" /\ \E i \in 1..Len(files) : files[i][2] \in MissingPaths) =>
        /\ ret.kind = "TelegramAPIError"
        /\ ret.msg[1] = "File not found: "
        /\ requests = <<>>

\* C9: when a call has returned or raised, no file it opened is still open.
C9_FilesClosedOnExit == cpc = "done" => unclosed = {}

\* C10: an envelope with ok = false makes the call raise the remote-API error
\* with the envelope's description, and when the call is the loop's getUpdates
\* the offset stays as it is and no handler is invoked: the loop goes to its
\* sleep.
C10_NotOkRaises ==
    /\ []( (cpc = "done" /\ result \in Envelopes /\ ~result.ok) =>
              /\ ret.kind = "TelegramAPIError"
              /\ ret.msg[1] = "Telegram API Error: "
              /\ result.description # NoDescription => ret.msg[2] = <<result.description>> )
    /\ [][ (pc = "get_updates" /\ cpc = "done" /\ result \in Envelopes /\ ~result.ok) =>
              /\ offset' = offset
              /\ invoked' = <<>>
              /\ pc' = "sleep" ]_vars

\* C10's case: getUpdates has been answered with ok = false and a description
\* after the offset had left 0.
C10_Witness ==
    /\ pc = "get_updates"
    /\ cpc = "done"
    /\ ~result.ok
    /\ result.description = "Bad Request: chat not found"
    /\ ret = TelegramAPIError("Telegram API Error: ", <<"Bad Request: chat not found">>)
    /\ offset > 0

(* ------------------------------------------------------------------------ *)
(* C11                                                                       *)
(* ------------------------------------------------------------------------ *)

\* The steps of the polling task and of what it awaits.  The event loop runs
\* a task that is ready (lines 132-148), the long poll ends by its timeout or
\* by a failure (lines 97-104), asyncio.sleep(5) ends (lines 141, 144), and an
\* awaited handler is taken to finish (line 122): the cycle in flight
\* completes.
TaskStep ==
    \/ LoopTop \/ CallEnter \/ ValidateData \/ BuildForm \/ PostSend \/ PostReceive
    \/ GetUpdatesReturn \/ Dispatch \/ HandlerReturn \/ ProcessReturn
    \/ Tick \/ Wake \/ Finally

\* Registries the decorator of lines 91-95 has built before start_polling():
\* none, one update type, the wildcard.
SetupRegistries ==
    { [k \in {} |-> NoHandler], [k \in { "message" } |-> "f"], [k \in { Wildcard } |-> "f"] }

\* The bot set up: its handlers registered, nothing else done (lines 11-17).
LiveInit ==
    /\ handlers \in SetupRegistries
    /\ offset = 0
    /\ session = "none"
    /\ running = FALSE
    /\ PollInit
    /\ NoCall

\* The program after setup: the polling task, stop_polling() and cancellation.
LiveNext == StartPolling \/ TaskStep \/ StopPolling \/ Cancel

\* The polling loop of a bot set up, its task scheduled fairly.
LiveSpec == LiveInit /\ [][LiveNext]_vars /\ WF_vars(TaskStep)

\* No loop of this bot is polling: start_polling() has not been entered or
\* has ended (lines 11-17, 145-148).
NotPolling == pc \in { "idle", "stopped" }

\* C11: stop_polling() is idempotent.  A call, whenever it is made (idle, a
\* poll in flight, a handler awaited, a backoff wait), raises nothing and
\* changes nothing but the running flag, which it clears; a call made when
\* the flag is already clear changes nothing at all, since once clear the
\* flag is set again only by start_polling(); and with the flag clear the
\* loop, if there is one, ends once the cycle in flight completes.
C11_StopIdempotent ==
    /\ [][ (running' # running \/ stopCalled' # stopCalled) =>
             /\ \/ pc = "idle" /\ pc' = "top" /\ running' /\ stopCalled' = stopCalled
                \/ /\ ~running' /\ stopCalled'
                   /\ UNCHANGED <<handlers, offset, session>>
                   /\ UNCHANGED callVars
                   /\ UNCHANGED <<pc, remaining, update, invoked, outcome, cancelled, timer,
                                  maxSeen, replaced, asked, batchOrder>> ]_vars
    /\ [][ (stopCalled /\ ~running /\ pc # "idle") => ~running' ]_vars
    /\ (~running ~> (NotPolling /\ ~running))

\* stop_polling() has been called on a loop that had taken updates, the flag
\* is clear, and the loop has ended without having been cancelled.
C11_Witness ==
    /\ stopCalled /\ ~running /\ ~cancelled
    /\ pc = "stopped"
    /\ maxSeen >= 0

(* ------------------------------------------------------------------------ *)
(* C12                                                                       *)
(* ------------------------------------------------------------------------ *)

\* C12: a stop request is observed only at the while test.  The loop leaves
\* for its exit only from the while test with the flag clear, or by
\* cancellation; a poll that ends after the stop hands its whole batch to
\* process_updates, and process_updates gives control back to the loop only
\* with the batch exhausted or with an error (the sleep); no request is sent
\* while the flag is clear, whether the stop came during the poll, a handler
\* or the sleep.
C12_StopObservedAtTop ==
    [][ /\ (pc' = "finally" /\ pc # "finally") =>
              \/ pc = "top" /\ ~running
              \/ cancelled'
        /\ (pc = "get_updates" /\ cpc = "done" /\ ret.kind = "ok") =>
              /\ remaining' = ret.value
              /\ pc' = IF ret.value > 0 THEN "process" ELSE "top"
        /\ (pc \in { "process", "handler" } /\ ~cancelled') =>
              \/ pc' \in { "process", "handler" }
              \/ pc' = "top" /\ remaining = 0
              \/ pc' = "sleep" /\ pc = "process"
        /\ (pc = "sleep" /\ ~cancelled') => pc' \in { "sleep", "top" }
        /\ Len(requests') > Len(requests) => running /\ running' ]_vars

\* stop_polling() was called while the long poll was in flight, and the poll
\* has ended with a batch.
C12_Witness ==
    /\ pc = "get_updates" /\ cpc = "done"
    /\ ret.kind = "ok" /\ ret.value > 0
    /\ stopCalled /\ ~running /\ ~cancelled

(* ------------------------------------------------------------------------ *)
(* C13                                                                       *)
(* ------------------------------------------------------------------------ *)

C14_FailedCycleNotFatal ==
    [][ /\ (pc = "get_updates" /\ cpc = "done"
             /\ ret.kind \in { "TelegramAPIError", "Exception" }) =>
              /\ pc' = "sleep" /\ timer' = 5
              /\ session' = "open" /\ running' = running /\ offset' = offset
        /\ (pc = "process" /\ pc' \notin { "process", "handler", "top" }) =>
              /\ pc' = "sleep" /\ timer' = 5
              /\ session' = "open" /\ running' = running
        /\ pc = "sleep" =>
              /\ requests' = requests /\ cpc' = "idle" /\ offset' = offset
              /\ \/ pc' = "sleep" /\ timer' \in { timer, timer - 1 } /\ timer' >= 0
                 \/ pc' = "top" /\ timer = 0
                 \/ pc' = "finally" /\ cancelled'
        /\ (pc = "top" /\ running) =>
              /\ pc' = "get_updates" /\ method' = "getUpdates"
              /\ data'[1] = <<"offset", IntValue(offset)>>
        /\ (pc = "get_updates" /\ Len(requests') > Len(requests)) =>
              LET sent == requests'[Len(requests')]
              IN  /\ sent.verb = "POST" /\ sent.target = ApiUrl("getUpdates")
                  /\ sent.body[1] = <<"offset", IntValue(offset)>> ]_vars

\* After a cycle that failed with updates already taken, the loop has slept
\* its 5 seconds and is still running with its session.
C14_Witness ==
    /\ pc = "sleep" /\ timer = 0
    /\ running /\ ~cancelled /\ session = "open"
    /\ offset > 0

(* ------------------------------------------------------------------------ *)
(* C15                                                                       *)
(* ------------------------------------------------------------------------ *)

\* The loop is in its cycle: at the while test, in get_updates, in
\* process_updates or in the sleep (lines 132-144).
Polling == pc \in { "top", "get_updates", "process", "handler", "sleep" }

\* C15: the loop ends only after a stop request or a cancellation.  A loop
\* that has left its cycle has had its running flag cleared by stop_polling()
\* or its task cancelled; a started loop with the flag set and no
\* cancellation is in its cycle with its session open, whatever batches,
\* failed cycles and handler failures it has been through.
C15_EndsOnlyByStopOrCancel ==
    /\ pc \in { "finally", "stopped" } => (stopCalled /\ ~running) \/ cancelled
    /\ (pc # "idle" /\ running /\ ~cancelled) => Polling /\ session = "open"

\* A loop that has taken updates and then been through a failed cycle, with
\* no stop request and no cancellation, is still in its cycle.
C15_Witness ==
    /\ Polling /\ pc = "sleep"
    /\ ~stopCalled /\ running /\ ~cancelled
    /\ maxSeen >= 0

(* ------------------------------------------------------------------------ *)
(* C16                                                                       *)
(* ------------------------------------------------------------------------ *)

\* The request the step sends, and the names and entries of its body.
Sent == requests'[Len(requests')]
SentNames == { Sent.body[i][1] : i \in DOMAIN Sent.body }
SentEntries == { Sent.body[i] : i \in DOMAIN Sent.body }

\* C16: every getUpdates request carries the current offset and the long-poll
\* timeout; with no wildcard handler its allowed_updates is the list of the
\* registered type names, and with a wildcard handler the body sent has no
\* allowed_updates entry at all, not even a null one.
C16_GetUpdatesParams ==
    [][ (pc = "get_updates" /\ Len(requests') > Len(requests)) =>
          /\ Sent.verb = "POST" /\ Sent.target = ApiUrl("getUpdates")
          /\ <<"offset", IntValue(offset)>> \in SentEntries
          /\ <<"timeout", IntValue(30)>> \in SentEntries
          /\ IF Wildcard \notin DOMAIN handlers
             THEN <<"allowed_updates", [t |-> "list", items |-> DOMAIN handlers]>> \in SentEntries
             ELSE "allowed_updates" \notin SentNames ]_vars

(* ------------------------------------------------------------------------ *)
(* C17                                                                       *)
(* ------------------------------------------------------------------------ *)

\* C17: an update with no field other than update_id fails with an error,
\* whatever handlers are registered: when the for loop takes such an update,
\* process_updates is left by an exception (the loop goes to its sleep), the
\* update is not passed over in silence, and no handler is invoked for it.
C17_FieldlessUpdateFails ==
    [][ (pc = "process" /\ remaining > 0 /\ (pc' # pc \/ remaining' # remaining)
         /\ update'.update_id # NoId /\ update'.fields = <<>>) =>
          /\ pc' = "sleep"
          /\ invoked' = <<>> ]_vars

(* ------------------------------------------------------------------------ *)
(* C18                                                                       *)
(* ------------------------------------------------------------------------ *)

BatchAborted == remaining > 0 /\ pc \in { "sleep", "top", "get_updates" }

\* The update_ids an update the loop did not reach can have in a batch that
\* ascends: those above the update_id of the last update taken.
Unreached == { id \in 0..MaxId : id > update.update_id }

\* C19 as stated: when the server returns each batch in ascending update_id
\* order and an error leaves process_updates part-way, every update not
\* reached has update_id >= offset, and the next getUpdates asks from that
\* offset.
C19_NoUpdateLostOnAbort ==
    (BatchAborted /\ batchOrder \in { "ascending", "conforming" }) =>
        /\ \A id \in Unreached : id >= offset
        /\ pc = "get_updates" => asked = offset

\* C19 amended: when the server returns each batch in ascending update_id
\* order and returns no update_id below the offset it was asked for, and an
\* error leaves process_updates part-way, every update not reached has
\* update_id >= offset, and the next getUpdates asks from that offset.
C19_NoUpdateLostFromConformingServer ==
    (BatchAborted /\ batchOrder = "conforming") =>
        /\ \A id \in Unreached : id >= offset
        /\ pc = "get_updates" => asked = offset

\* The second getUpdates is under way after a batch from a conforming server
\* was aborted at an update that has only an update_id, with an update not
\* reached that can have a larger update_id.
C19_Witness ==
    /\ BatchAborted /\ pc = "get_updates"
    /\ batchOrder = "conforming"
    /\ update.fields = <<>> /\ update.update_id >= 1
    /\ offset = update.update_id + 1
    /\ Unreached # {}

(* ------------------------------------------------------------------------ *)
(* C20                                                                       *)
(* ------------------------------------------------------------------------ *)

\* C20: a stop_polling() made before start_polling() is not remembered.
\* start_polling() sets the running flag whatever it was and whatever was
\* called before; the first while test of the loop therefore begins
\* getUpdates, so no loop ends without having issued one; and a loop started
\* after such a call stays in its cycle as long as its flag is set, that is
\* until stop_polling() is called again, or until its task is cancelled.
C20_StopBeforeStartForgotten ==
    /\ [][ (pc = "idle" /\ pc' # "idle") =>
              running' /\ pc' = "top" /\ stopCalled' = stopCalled ]_vars
    /\ [][ (pc = "top" /\ asked = NoId) =>
              pc' = "get_updates" /\ method' = "getUpdates" /\ asked' = offset ]_vars
    /\ [](pc \in { "finally", "stopped" } => asked # NoId)
    /\ []((stopCalled /\ running /\ pc # "idle" /\ ~cancelled) => Polling)
    /\ [][ (running /\ ~running') => pc # "idle" /\ stopCalled' ]_vars

\* stop_polling() was called before start_polling(), and the loop, having
\* taken a batch, has a further getUpdates in flight with its flag set.
C20_Witness ==
    /\ stopCalled /\ running /\ ~cancelled
    /\ pc = "get_updates" /\ cpc = "await_post"
    /\ maxSeen >= 0

=============================================================================
